---- MODULE Spec2Model ----
(***************************************************************************)
(* Capacity probes (Avail block bloat scripts) and the bounded-concurrency *)
(* submitter with inclusion tracking (Espresso async stress test).         *)
(*                                                                         *)
(*   ProbeSpec : bloat_autoshrink / bloat_block, one sequential run against*)
(*               a fixed deterministic accept/reject oracle.               *)
(*   Spec      : submit_many_and_wait, num submit tasks and the poll tasks *)
(*               that follow them, sharing one semaphore.                  *)
(*   WideSpec  : Spec with one more permit.                                *)
(*   GrowthSpec: the probes at their command-line sizes.                   *)
(*   WaitSpec  : one wait_for_inclusion call with its clock.               *)
(*   ReportSpec: poll_one's bookkeeping and main_async's per-block table.  *)
(*   PayloadSpec: deterministic_payload and mk_payload, each called twice. *)
(***************************************************************************)
EXTENDS Integers, Sequences, FiniteSets

\* ------------------------------------------------------------------ bounds
MaxBytes == 4
MaxCalls == 5
MaxMinCalls == 2
MaxCap == 12
NumUnits == 2
MaxConcurrency == 1
SubmitTimeout == 4
IncludeTimeout == 3
MaxTimeoutSec == 5
MaxPollEvery == 2
MaxExtra == 2
MaxLimit == 100
MaxPayload == 10
MaxBase == 2
MaxIdx == 10
MaxClock == 10
MaxHeight == 2
MaxBlocks == 2
MaxBlockHeight == 2
MaxTime == 2
MaxTxs == 1

VARIABLES
    \* ---- capacity probe (block_bloat_test_autoshrink.py, block_bloat_test.py)
    prog,       \* which probe runs: "autoshrink" | "block" | "none"
    cfg,        \* the call's arguments
    oracle,     \* the remote service: a fixed accept/reject rule
    pc,         \* position of the probe in its code
    size,       \* autoshrink: current payload size
    n,          \* autoshrink: start count of the inner search; block: current count
    nn,         \* autoshrink: current count of the inner search
    best_n,     \* last accepted count of the growth probe
    probe,      \* next count the growth probe tries
    sub_ok,     \* result of the last submit_batch / try_submit
    last_err,   \* autoshrink: reason of the last rejection
    tried,      \* every (size, count) submitted so far in this run
    accepted,   \* every (size, count) accepted so far in this run
    \* ---- submit_many_and_wait (espresso_max_tps.py)
    concurrency,        \* argument: the semaphore's initial value
    num,                \* argument: number of units to submit
    sem,                \* free permits of asyncio.Semaphore(concurrency)
    phase,              \* "submit" | "poll" | "returned" | "aborted" | "reported"
    spc,                \* per unit: position of its submit task
    attempt,            \* per unit: client.submit's loop variable
    elapsed,            \* per unit: ticks since asyncio.wait_for began
    waited,             \* per unit: ticks slept since its last failed attempt
    last_exc,           \* per unit: client.submit's last_exc
    timed_out,          \* per unit: asyncio.wait_for cancelled its submit
    submitted_hashes,   \* list of handles, in completion order
    failed_submissions, \* list of ("submit#", idx, error text)
    tx_hashes,          \* handles carried to polling, in creation order
    qpc,                \* per unit: position of its poll task
    pelapsed,           \* per unit: seconds since wait_for_inclusion set its deadline
    pslept,             \* per unit: seconds slept since its last poll
    included,           \* list of included handles
    included_failures,  \* list of ("tx", handle, "timeout")
    ret,                \* what submit_many_and_wait returned
    height,             \* per handle: the height poll_one stored with it (-1: None)
    by_block,           \* main_async: height -> list of included handles
    \* ---- wait_for_inclusion alone (espresso_max_tps.py, espresso-da.py)
    wfi,                \* one call: arguments, clock and position
    \* ---- payload generators (deterministic_payload, mk_payload)
    gen,                \* two calls of one generator with the same arguments
    \* ---- rate computations (avail_tps.py, celestia_tps.py, espresso_analyzer.py)
    stats               \* one call: the block list and what it returned

pvars == <<prog, cfg, oracle, pc, size, n, nn, best_n, probe, sub_ok, last_err,
           tried, accepted>>

svars == <<concurrency, num, sem, phase, spc, attempt, elapsed, waited, last_exc,
           timed_out, submitted_hashes, failed_submissions, tx_hashes,
           qpc, pelapsed, pslept, included, included_failures, ret, height, by_block>>

xvars == <<wfi, gen, stats>>

vars == <<pvars, svars, xvars>>

Max(a, b) == IF a >= b THEN a ELSE b
Min(a, b) == IF a <= b THEN a ELSE b

\* variant of GrowStep: the growth probe doubles the count
GrowStepDoubling(c) == 2 * c

\* int(c * 1.1) + 1 : the float product truncates to floor(11c/10) for every
\* count the probes can reach.
GrowStep(c) == (c * 11) \div 10 + 1

\* int(math.ceil(a / b)) for positive integers
CeilDiv(a, b) == (a + b - 1) \div b

\* The remote service as submit_batch / try_submit see it: a batch of `count`
\* calls of `sz` bytes is included iff it fits the block.
Accepts(sz, count) == sz * count <= oracle.capBytes

\* "too large" in (last_err or "").lower()
IsTooLarge(err) == err = "too large"

PTerminal == {"returned", "raised", "fell_off"}

ProbeConfigs ==
    [start_bytes : 1..MaxBytes, min_bytes : 1..MaxBytes,
     start_calls : 1..MaxCalls, max_calls : 1..MaxCalls,
     min_calls : 1..MaxMinCalls]

Oracles == [capBytes : 0..MaxCap, reason : {"generic", "too large"}]

\* --------------------------------------------------------- program constants
\* argparse defaults of the two probe scripts
ChunkBytes == 4096
StartCalls == 100
StartCallsAutoshrink == 300
DefaultMaxCalls == 1000
MinChunk == 64
\* client.submit(namespace, payload, retries=4)
Retries == 4
\* poll_every=2.0 (seconds)
PollEvery == 2

Units == 1..NumUnits
Tasks == 1..num

\* asyncio.sleep(backoff_base * (2 ** (attempt - 1))), in ticks of backoff_base
RECURSIVE Pow2(_)
Pow2(k) == IF k <= 0 THEN 1 ELSE 2 * Pow2(k - 1)
Backoff(k) == Pow2(k - 1)

\* What one POST to the submit endpoint can come back with: a 200 with a tx
\* string, a 429/500/502/503/504, any other non-200 status, or an exception
\* (transport error, or a 200 whose body holds no tx string).
Responses == {"ok", "retryable", "fatal", "error"}

\* What one GET of the transaction can come back with: a 200 with metadata, a
\* 404 / other status / empty JSON (None), or an exception (transport error,
\* undecodable body).
PollResponses == {"found", "none", "error"}

\* str(e) of the exception do_submit catches: the RuntimeError texts of
\* client.submit, the transport error's text, and asyncio.TimeoutError(), which
\* carries no message.
StrOfException(e) ==
    CASE e = "retryable" -> "HTTP retryable"
      [] e = "fatal"     -> "HTTP fatal"
      [] e = "error"     -> "error"
      [] e = "TimeoutError" -> ""
      [] OTHER -> "None"

InSubmit(u) == spc[u] \in {"loop_top", "inflight", "backoff"}

SubmitterIdle ==
    /\ concurrency = 0 /\ num = 0 /\ sem = 0
    /\ phase = "none"
    /\ spc = [u \in Units |-> "idle"]
    /\ attempt = [u \in Units |-> 0]
    /\ elapsed = [u \in Units |-> 0]
    /\ waited = [u \in Units |-> 0]
    /\ last_exc = [u \in Units |-> "none"]
    /\ timed_out = [u \in Units |-> FALSE]
    /\ submitted_hashes = <<>>
    /\ failed_submissions = <<>>
    /\ tx_hashes = <<>>
    /\ qpc = [u \in Units |-> "none"]
    /\ pelapsed = [u \in Units |-> 0]
    /\ pslept = [u \in Units |-> 0]
    /\ included = <<>>
    /\ included_failures = <<>>
    /\ ret = [st |-> "none"]
    /\ height = [u \in Units |-> -1]
    /\ by_block = <<>>

\* No probe is running.
ProbeIdle ==
    /\ prog = "none"
    /\ cfg = [start_bytes |-> 1, min_bytes |-> 1, start_calls |-> 1, max_calls |-> 1,
              min_calls |-> 1]
    /\ oracle = [capBytes |-> 0, reason |-> "generic"]
    /\ pc = "none" /\ size = 0 /\ n = 0 /\ nn = 0 /\ best_n = 0 /\ probe = 0
    /\ sub_ok = FALSE /\ last_err = "none" /\ tried = {} /\ accepted = {}

\* No wait_for_inclusion call and no payload generator is being looked at.
WfiIdle == wfi = [pc |-> "none"]
GenIdle == gen = [pc |-> "none"]
StatsIdle == stats = [pc |-> "none"]

\* variant of AS_Enter: the size starts at start_bytes whatever the floor is
AS_EnterKeepsStartBytes(c) ==
    /\ size = c.start_bytes
    /\ n = Max(c.min_calls, c.start_calls)
    /\ cfg = [c EXCEPT !.max_calls = Max(c.min_calls, c.max_calls)]
    /\ pc = "size_loop"
    /\ nn = 0

\* bloat_autoshrink, lines 134-136: the arguments are normalised on entry.
AS_Enter(c) ==
    /\ size = Max(c.min_bytes, c.start_bytes)
    /\ n = Max(c.min_calls, c.start_calls)
    /\ cfg = [c EXCEPT !.max_calls = Max(c.min_calls, c.max_calls)]
    /\ pc = "size_loop"
    /\ nn = 0

\* bloat_block, lines 157-160: chunk_bytes is fixed, the count starts at high.
BB_Enter(c) ==
    /\ size = c.start_bytes
    /\ n = Max(1, Min(c.max_calls, c.start_calls))
    /\ cfg = [c EXCEPT !.min_bytes = c.start_bytes, !.min_calls = 1]
    /\ pc = "b_loop"
    /\ nn = 0

ProbeInit ==
    /\ SubmitterIdle /\ WfiIdle /\ GenIdle /\ StatsIdle
    /\ prog \in {"autoshrink", "block"}
    /\ oracle \in Oracles
    /\ \E c \in ProbeConfigs :
          IF prog = "autoshrink" THEN AS_Enter(c) ELSE BB_Enter(c)
    /\ best_n = 0
    /\ probe = 0
    /\ sub_ok = FALSE
    /\ last_err = "none"
    /\ tried = {}
    /\ accepted = {}

\* The probes at the sizes of their command lines: --chunk-bytes 4096 with
\* --start-calls 100 or 300 and --max-calls 1000, --min-chunk 64, against a
\* service that at 4096 bytes accepts exactly the counts up to a limit.
GrowthConfigs ==
    [start_bytes : {ChunkBytes}, min_bytes : {MinChunk, ChunkBytes},
     start_calls : {StartCalls, StartCallsAutoshrink},
     max_calls : {StartCalls, DefaultMaxCalls},
     min_calls : 1..MaxMinCalls]

GrowthOracles ==
    {[capBytes |-> l * ChunkBytes, reason |-> r] :
        l \in 0..MaxLimit, r \in {"generic", "too large"}}

GrowthInit ==
    /\ SubmitterIdle /\ WfiIdle /\ GenIdle /\ StatsIdle
    /\ prog \in {"autoshrink", "block"}
    /\ oracle \in GrowthOracles
    /\ \E c \in GrowthConfigs :
          IF prog = "autoshrink" THEN AS_Enter(c) ELSE BB_Enter(c)
    /\ best_n = 0
    /\ probe = 0
    /\ sub_ok = FALSE
    /\ last_err = "none"
    /\ tried = {}
    /\ accepted = {}

\* ---------------------------------------------------------- bloat_autoshrink

\* variant of AS_SizeLoop: the inner search opens at n, not at min(n, max_calls)
AS_SizeLoopUnclamped ==
    /\ prog = "autoshrink" /\ pc = "size_loop"
    /\ IF size >= cfg.min_bytes
         THEN /\ nn' = n
              /\ last_err' = "none"
              /\ pc' = "count_loop"
         ELSE /\ pc' = "fell_off"      \* the loop ends and the function returns None
              /\ UNCHANGED <<nn, last_err>>
    /\ UNCHANGED <<prog, cfg, oracle, size, n, best_n, probe, sub_ok, tried, accepted>>
    /\ UNCHANGED <<svars, xvars>>

\* line 138: while size >= min_bytes; lines 140-141 open the inner search.
AS_SizeLoop ==
    /\ prog = "autoshrink" /\ pc = "size_loop"
    /\ IF size >= cfg.min_bytes
         THEN /\ nn' = Min(n, cfg.max_calls)
              /\ last_err' = "none"
              /\ pc' = "count_loop"
         ELSE /\ pc' = "fell_off"      \* the loop ends and the function returns None
              /\ UNCHANGED <<nn, last_err>>
    /\ UNCHANGED <<prog, cfg, oracle, size, n, best_n, probe, sub_ok, tried, accepted>>
    /\ UNCHANGED <<svars, xvars>>

\* lines 143-144: while nn >= min_calls: submit_batch(size, nn)
AS_CountLoop ==
    /\ prog = "autoshrink" /\ pc = "count_loop"
    /\ IF nn >= cfg.min_calls
         THEN /\ sub_ok' = Accepts(size, nn)
              /\ tried' = tried \cup {<<size, nn>>}
              /\ accepted' = IF Accepts(size, nn) THEN accepted \cup {<<size, nn>>}
                                                  ELSE accepted
              /\ pc' = "submitted"
         ELSE /\ pc' = "shrink"
              /\ UNCHANGED <<sub_ok, tried, accepted>>
    /\ UNCHANGED <<prog, cfg, oracle, size, n, nn, best_n, probe, last_err>>
    /\ UNCHANGED <<svars, xvars>>

\* lines 145-149 (accepted) and 160-166 (rejected)
AS_Submitted ==
    /\ prog = "autoshrink" /\ pc = "submitted"
    /\ IF sub_ok
         THEN /\ best_n' = nn
              /\ probe' = Min(cfg.max_calls, GrowStep(nn))
              /\ pc' = "grow_loop"
              /\ UNCHANGED <<nn, last_err>>
         ELSE /\ last_err' = oracle.reason
              /\ nn' = Max(cfg.min_calls, nn \div 2)
              /\ pc' = IF Max(cfg.min_calls, nn \div 2) = 1 /\ IsTooLarge(oracle.reason)
                         THEN "shrink" ELSE "count_loop"
              /\ UNCHANGED <<best_n, probe>>
    /\ UNCHANGED <<prog, cfg, oracle, size, n, sub_ok, tried, accepted>>
    /\ UNCHANGED <<svars, xvars>>

\* lines 150-151 and 159: while probe > best_n and probe <= max_calls: submit
AS_GrowLoop ==
    /\ prog = "autoshrink" /\ pc = "grow_loop"
    /\ IF probe > best_n /\ probe <= cfg.max_calls
         THEN /\ sub_ok' = Accepts(size, probe)
              /\ tried' = tried \cup {<<size, probe>>}
              /\ accepted' = IF Accepts(size, probe) THEN accepted \cup {<<size, probe>>}
                                                     ELSE accepted
              /\ pc' = "grow_submitted"
         ELSE /\ pc' = "returned"      \* return size, best_n, best_rcpt
              /\ UNCHANGED <<sub_ok, tried, accepted>>
    /\ UNCHANGED <<prog, cfg, oracle, size, n, nn, best_n, probe, last_err>>
    /\ UNCHANGED <<svars, xvars>>

\* variant of AS_GrowResult: best_n is overwritten before ok2 is looked at
AS_GrowResultKeepsRejected ==
    /\ prog = "autoshrink" /\ pc = "grow_submitted"
    /\ best_n' = probe
    /\ IF sub_ok
         THEN /\ probe' = Min(cfg.max_calls, GrowStep(probe))
              /\ pc' = "grow_loop"
         ELSE /\ pc' = "returned"
              /\ UNCHANGED probe
    /\ UNCHANGED <<prog, cfg, oracle, size, n, nn, sub_ok, last_err, tried, accepted>>
    /\ UNCHANGED <<svars, xvars>>

\* variant of AS_GrowResult: a rejected growth attempt is followed by another
AS_GrowResultTriesAgain ==
    /\ prog = "autoshrink" /\ pc = "grow_submitted"
    /\ IF sub_ok
         THEN /\ best_n' = probe
              /\ probe' = Min(cfg.max_calls, GrowStep(probe))
         ELSE /\ probe' = probe - 1
              /\ UNCHANGED best_n
    /\ pc' = "grow_loop"
    /\ UNCHANGED <<prog, cfg, oracle, size, n, nn, sub_ok, last_err, tried, accepted>>
    /\ UNCHANGED <<svars, xvars>>

\* lines 152-159: keep an accepted probe and grow again, or stop and return
AS_GrowResult ==
    /\ prog = "autoshrink" /\ pc = "grow_submitted"
    /\ IF sub_ok
         THEN /\ best_n' = probe
              /\ probe' = Min(cfg.max_calls, GrowStep(probe))
              /\ pc' = "grow_loop"
         ELSE /\ pc' = "returned"
              /\ UNCHANGED <<best_n, probe>>
    /\ UNCHANGED <<prog, cfg, oracle, size, n, nn, sub_ok, last_err, tried, accepted>>
    /\ UNCHANGED <<svars, xvars>>

\* variant of AS_Shrink: the start count is kept when the size is halved
AS_ShrinkKeepsCount ==
    /\ prog = "autoshrink" /\ pc = "shrink"
    /\ IF size <= cfg.min_bytes
         THEN /\ pc' = "raised"
              /\ UNCHANGED <<size, n>>
         ELSE /\ size' = size \div 2
              /\ n' = n
              /\ pc' = "size_loop"
    /\ UNCHANGED <<prog, cfg, oracle, nn, best_n, probe, sub_ok, last_err, tried, accepted>>
    /\ UNCHANGED <<svars, xvars>>

\* lines 168-174: raise at the floor, else halve the size and reset the count
AS_Shrink ==
    /\ prog = "autoshrink" /\ pc = "shrink"
    /\ IF size <= cfg.min_bytes
         THEN /\ pc' = "raised"
              /\ UNCHANGED <<size, n>>
         ELSE /\ size' = size \div 2
              /\ n' = Max(cfg.min_calls,
                          cfg.start_calls \div Max(1, CeilDiv(cfg.start_bytes, size \div 2)))
              /\ pc' = "size_loop"
    /\ UNCHANGED <<prog, cfg, oracle, nn, best_n, probe, sub_ok, last_err, tried, accepted>>
    /\ UNCHANGED <<svars, xvars>>

\* ---------------------------------------------------------------- bloat_block

\* lines 161-162: while n >= 1: try_submit(n)
BB_Loop ==
    /\ prog = "block" /\ pc = "b_loop"
    /\ IF n >= 1
         THEN /\ sub_ok' = Accepts(size, n)
              /\ tried' = tried \cup {<<size, n>>}
              /\ accepted' = IF Accepts(size, n) THEN accepted \cup {<<size, n>>}
                                                 ELSE accepted
              /\ pc' = "b_tried"
         ELSE /\ pc' = "raised"        \* lines 170-171: ok_receipt is None
              /\ UNCHANGED <<sub_ok, tried, accepted>>
    /\ UNCHANGED <<prog, cfg, oracle, size, n, nn, best_n, probe, last_err>>
    /\ UNCHANGED <<svars, xvars>>

\* variant of BB_Tried: a rejected count is lowered by one
BB_TriedStepsDownByOne ==
    /\ prog = "block" /\ pc = "b_tried"
    /\ IF sub_ok
         THEN /\ best_n' = n
              /\ probe' = Min(cfg.max_calls, GrowStep(n))
              /\ pc' = "b_grow"
              /\ UNCHANGED n
         ELSE /\ n' = n - 1
              /\ pc' = "b_loop"
              /\ UNCHANGED <<best_n, probe>>
    /\ UNCHANGED <<prog, cfg, oracle, size, nn, sub_ok, last_err, tried, accepted>>
    /\ UNCHANGED <<svars, xvars>>

\* lines 163-168 and 174-176
BB_Tried ==
    /\ prog = "block" /\ pc = "b_tried"
    /\ IF sub_ok
         THEN /\ best_n' = n
              /\ probe' = Min(cfg.max_calls, GrowStep(n))
              /\ pc' = "b_grow"
              /\ UNCHANGED n
         ELSE /\ n' = n \div 2
              /\ pc' = "b_loop"
              /\ UNCHANGED <<best_n, probe>>
    /\ UNCHANGED <<prog, cfg, oracle, size, nn, sub_ok, last_err, tried, accepted>>
    /\ UNCHANGED <<svars, xvars>>

\* lines 177-178 and 186-188
BB_GrowLoop ==
    /\ prog = "block" /\ pc = "b_grow"
    /\ IF probe > best_n /\ probe <= cfg.max_calls
         THEN /\ sub_ok' = Accepts(size, probe)
              /\ tried' = tried \cup {<<size, probe>>}
              /\ accepted' = IF Accepts(size, probe) THEN accepted \cup {<<size, probe>>}
                                                     ELSE accepted
              /\ pc' = "b_grow_tried"
         ELSE /\ pc' = "returned"
              /\ UNCHANGED <<sub_ok, tried, accepted>>
    /\ UNCHANGED <<prog, cfg, oracle, size, n, nn, best_n, probe, last_err>>
    /\ UNCHANGED <<svars, xvars>>

\* lines 179-183
BB_GrowResult ==
    /\ prog = "block" /\ pc = "b_grow_tried"
    /\ IF sub_ok
         THEN /\ best_n' = probe
              /\ probe' = Min(cfg.max_calls, GrowStep(probe))
              /\ pc' = "b_grow"
         ELSE /\ pc' = "returned"
              /\ UNCHANGED <<best_n, probe>>
    /\ UNCHANGED <<prog, cfg, oracle, size, n, nn, sub_ok, last_err, tried, accepted>>
    /\ UNCHANGED <<svars, xvars>>

ProbeNext ==
    \/ AS_SizeLoop
    \/ AS_CountLoop
    \/ AS_Submitted
    \/ AS_GrowLoop
    \/ AS_GrowResult
    \/ AS_Shrink
    \/ BB_Loop
    \/ BB_Tried
    \/ BB_GrowLoop
    \/ BB_GrowResult

\* A probe is one sequential function call: whenever it has a next statement it
\* executes it.
ProbeSpec == ProbeInit /\ [][ProbeNext]_vars /\ WF_vars(ProbeNext)

GrowthSpec == GrowthInit /\ [][ProbeNext]_vars

\* ------------------------------------------------------- submit_many_and_wait

\* lines 175-178 and 200-201: the semaphore, the empty lists, one task per index
SM_Enter(permits) ==
    /\ concurrency \in permits
    /\ num \in 1..NumUnits
    /\ sem = concurrency
    /\ phase = "submit"
    /\ spc = [u \in Units |-> IF u <= num THEN "wait_sem" ELSE "idle"]
    /\ attempt = [u \in Units |-> 0]
    /\ elapsed = [u \in Units |-> 0]
    /\ waited = [u \in Units |-> 0]
    /\ last_exc = [u \in Units |-> "none"]
    /\ timed_out = [u \in Units |-> FALSE]
    /\ submitted_hashes = <<>>
    /\ failed_submissions = <<>>
    /\ tx_hashes = <<>>
    /\ qpc = [u \in Units |-> "none"]
    /\ pelapsed = [u \in Units |-> 0]
    /\ pslept = [u \in Units |-> 0]
    /\ included = <<>>
    /\ included_failures = <<>>
    /\ ret = [st |-> "none"]
    /\ height = [u \in Units |-> -1]
    /\ by_block = <<>>

Init ==
    /\ ProbeIdle /\ WfiIdle /\ GenIdle /\ StatsIdle
    /\ SM_Enter(0..MaxConcurrency)

\* variant of CanAcquire: a semaphore that never blocks
CanAcquireAlways == TRUE

\* Semaphore.acquire: a task passes only while a permit is free
CanAcquire == sem > 0

\* lines 196-198, 185: submit_worker enters `async with semaphore`, do_submit
\* starts asyncio.wait_for(client.submit(...)), which stands before its loop
SubmitAcquire(u) ==
    /\ phase = "submit" /\ spc[u] = "wait_sem"
    /\ CanAcquire
    /\ sem' = sem - 1
    /\ spc' = [spc EXCEPT ![u] = "loop_top"]
    /\ UNCHANGED <<concurrency, num, phase, attempt, elapsed, waited, last_exc,
                   timed_out, submitted_hashes, failed_submissions, tx_hashes, qpc,
                   pelapsed, pslept, included, included_failures, ret>>
    /\ UNCHANGED <<height, by_block>>
    /\ UNCHANGED <<pvars, xvars>>

\* variant of RecordSubmitFailure: a timed-out submit leaves no failure entry
RecordSubmitFailureDropsTimeout(u, e) ==
    /\ failed_submissions' = IF e = "TimeoutError" THEN failed_submissions
                              ELSE Append(failed_submissions, <<"submit#", u, StrOfException(e)>>)
    /\ spc' = [spc EXCEPT ![u] = "failed"]
    /\ sem' = sem + 1
    /\ elapsed' = [elapsed EXCEPT ![u] = 0]
    /\ waited' = [waited EXCEPT ![u] = 0]
    /\ last_exc' = [last_exc EXCEPT ![u] = "none"]
    /\ UNCHANGED <<phase, ret>>

\* variant of RecordSubmitFailure: do_submit lets the exception reach gather
SubmitFailureAbortsBatch(u, e) ==
    /\ phase' = "aborted"
    /\ spc' = [spc EXCEPT ![u] = "failed"]
    /\ sem' = sem + 1
    /\ elapsed' = [elapsed EXCEPT ![u] = 0]
    /\ waited' = [waited EXCEPT ![u] = 0]
    /\ last_exc' = [last_exc EXCEPT ![u] = "none"]
    /\ UNCHANGED <<failed_submissions, ret>>

\* lines 188-191 and the exit of `async with semaphore`: do_submit records the
\* failure of unit u with the text of exception e, the worker frees its permit;
\* the locals of the finished call are gone
RecordSubmitFailure(u, e) ==
    /\ failed_submissions' = Append(failed_submissions, <<"submit#", u, StrOfException(e)>>)
    /\ spc' = [spc EXCEPT ![u] = "failed"]
    /\ sem' = sem + 1
    /\ elapsed' = [elapsed EXCEPT ![u] = 0]
    /\ waited' = [waited EXCEPT ![u] = 0]
    /\ last_exc' = [last_exc EXCEPT ![u] = "none"]
    /\ UNCHANGED <<phase, ret>>

\* variant of SubmitLoop: the loop runs over range(1, retries + 2)
SubmitLoopOneMore(u) ==
    /\ phase = "submit" /\ spc[u] = "loop_top"
    /\ IF attempt[u] <= Retries
         THEN /\ attempt' = [attempt EXCEPT ![u] = attempt[u] + 1]
              /\ spc' = [spc EXCEPT ![u] = "inflight"]
              /\ UNCHANGED <<sem, phase, failed_submissions, ret, elapsed, waited, last_exc>>
         ELSE /\ RecordSubmitFailure(u, last_exc[u])
              /\ UNCHANGED attempt
    /\ UNCHANGED <<concurrency, num, timed_out,
                   submitted_hashes, tx_hashes, qpc, pelapsed, pslept, included,
                   included_failures>>
    /\ UNCHANGED <<height, by_block>>
    /\ UNCHANGED <<pvars, xvars>>

\* lines 57-59 and 92: the next iteration of `for attempt in range(1, retries+1)`
\* POSTs; when the range is used up, client.submit raises last_exc
SubmitLoop(u) ==
    /\ phase = "submit" /\ spc[u] = "loop_top"
    /\ IF attempt[u] < Retries
         THEN /\ attempt' = [attempt EXCEPT ![u] = attempt[u] + 1]
              /\ spc' = [spc EXCEPT ![u] = "inflight"]
              /\ UNCHANGED <<sem, phase, failed_submissions, ret, elapsed, waited, last_exc>>
         ELSE /\ RecordSubmitFailure(u, last_exc[u])
              /\ UNCHANGED attempt
    /\ UNCHANGED <<concurrency, num, timed_out,
                   submitted_hashes, tx_hashes, qpc, pelapsed, pslept, included,
                   included_failures>>
    /\ UNCHANGED <<height, by_block>>
    /\ UNCHANGED <<pvars, xvars>>

\* lines 86-91: the except clause of client.submit, reached by every exception
\* raised inside the try (line 67's RuntimeError included)
SubmitExcept(u, e) ==
    IF attempt[u] < Retries
      THEN /\ last_exc' = [last_exc EXCEPT ![u] = e]
           /\ spc' = [spc EXCEPT ![u] = "backoff"]
           /\ waited' = [waited EXCEPT ![u] = 0]
           /\ UNCHANGED <<sem, phase, failed_submissions, ret, elapsed>>
      ELSE RecordSubmitFailure(u, e)

\* lines 59-85: the response of the POST of unit u's current attempt
SubmitResponse(u, r) ==
    /\ phase = "submit" /\ spc[u] = "inflight"
    /\ CASE r = "ok" ->
              \* lines 76-84 return the tx string; lines 186-187; permit freed
              /\ submitted_hashes' = Append(submitted_hashes, u)
              /\ spc' = [spc EXCEPT ![u] = "ok"]
              /\ sem' = sem + 1
              /\ elapsed' = [elapsed EXCEPT ![u] = 0]
              /\ waited' = [waited EXCEPT ![u] = 0]
              /\ last_exc' = [last_exc EXCEPT ![u] = "none"]
              /\ UNCHANGED <<phase, failed_submissions, ret>>
         [] r = "retryable" ->
              \* lines 63-65: last_exc is set and the try block ends normally
              /\ last_exc' = [last_exc EXCEPT ![u] = "retryable"]
              /\ spc' = [spc EXCEPT ![u] = "loop_top"]
              /\ waited' = [waited EXCEPT ![u] = 0]
              /\ UNCHANGED <<sem, phase, submitted_hashes, failed_submissions, ret, elapsed>>
         [] r = "fatal" ->
              \* line 67 raises inside the try
              /\ SubmitExcept(u, "fatal")
              /\ UNCHANGED submitted_hashes
         [] r = "error" ->
              \* the POST raises, or line 85 does
              /\ SubmitExcept(u, "error")
              /\ UNCHANGED submitted_hashes
    /\ UNCHANGED <<concurrency, num, attempt, timed_out, tx_hashes, qpc,
                   pelapsed, pslept, included, included_failures>>
    /\ UNCHANGED <<height, by_block>>
    /\ UNCHANGED <<pvars, xvars>>

\* line 89-90: asyncio.sleep(backoff) is over, `continue`
SubmitWake(u) ==
    /\ phase = "submit" /\ spc[u] = "backoff"
    /\ waited[u] >= Backoff(attempt[u])
    /\ spc' = [spc EXCEPT ![u] = "loop_top"]
    /\ UNCHANGED <<concurrency, num, sem, phase, attempt, elapsed, waited, last_exc,
                   timed_out, submitted_hashes, failed_submissions, tx_hashes,
                   qpc, pelapsed, pslept, included, included_failures, ret>>
    /\ UNCHANGED <<height, by_block>>
    /\ UNCHANGED <<pvars, xvars>>

\* line 185: asyncio.wait_for cancels client.submit at whatever await it is
\* suspended in and raises asyncio.TimeoutError into do_submit
SubmitTimesOut(u) ==
    /\ phase = "submit" /\ spc[u] \in {"inflight", "backoff"}
    /\ elapsed[u] >= SubmitTimeout
    /\ timed_out' = [timed_out EXCEPT ![u] = TRUE]
    /\ RecordSubmitFailure(u, "TimeoutError")
    /\ UNCHANGED <<concurrency, num, attempt,
                   submitted_hashes, tx_hashes, qpc, pelapsed, pslept, included,
                   included_failures>>
    /\ UNCHANGED <<height, by_block>>
    /\ UNCHANGED <<pvars, xvars>>

\* Time passes (one tick of backoff_base) for every suspended submit; due timers
\* (a finished sleep, an expired wait_for) fire before the clock moves on, and
\* code between two awaits takes no time.
SubmitTick ==
    /\ phase = "submit"
    /\ \E u \in Tasks : spc[u] \in {"inflight", "backoff"}
    /\ \A u \in Tasks :
          /\ spc[u] # "loop_top"
          /\ spc[u] \in {"inflight", "backoff"} => elapsed[u] < SubmitTimeout
          /\ spc[u] = "backoff" => waited[u] < Backoff(attempt[u])
    /\ elapsed' = [u \in Units |-> IF spc[u] \in {"inflight", "backoff"}
                                     THEN elapsed[u] + 1 ELSE elapsed[u]]
    /\ waited' = [u \in Units |-> IF spc[u] = "backoff" THEN waited[u] + 1 ELSE waited[u]]
    /\ UNCHANGED <<concurrency, num, sem, phase, spc, attempt, last_exc,
                   timed_out, submitted_hashes, failed_submissions, tx_hashes, qpc,
                   pelapsed, pslept, included, included_failures, ret>>
    /\ UNCHANGED <<height, by_block>>
    /\ UNCHANGED <<pvars, xvars>>

\* [r[0] for r in results if r[0] is not None]: the handles in creation order
RECURSIVE HandlesUpTo(_)
HandlesUpTo(k) ==
    IF k = 0 THEN <<>>
    ELSE IF spc[k] = "ok" THEN Append(HandlesUpTo(k - 1), k) ELSE HandlesUpTo(k - 1)

\* variant of GatherSubmits: the polling starts when the first submit task is done
GatherSubmitsAfterFirst ==
    /\ phase = "submit"
    /\ \E u \in Tasks : spc[u] \in {"ok", "failed"}
    /\ tx_hashes' = HandlesUpTo(num)
    /\ IF HandlesUpTo(num) = <<>>
         THEN /\ phase' = "returned"
              /\ ret' = [st |-> "result", included |-> <<>>, failed |-> failed_submissions]
              /\ UNCHANGED qpc
         ELSE /\ phase' = "poll"
              /\ qpc' = [u \in Units |-> IF u <= num /\ spc[u] = "ok" THEN "wait_sem"
                                                                     ELSE "none"]
              /\ UNCHANGED ret
    /\ attempt' = [u \in Units |-> 0]
    /\ timed_out' = [u \in Units |-> FALSE]
    /\ UNCHANGED <<concurrency, num, sem, spc, elapsed, waited, last_exc,
                   submitted_hashes, failed_submissions,
                   pelapsed, pslept, included, included_failures>>
    /\ UNCHANGED <<height, by_block>>
    /\ UNCHANGED <<pvars, xvars>>

\* lines 204-213 and 230: gather returns once every submit task is done; with no
\* handle the function returns at once, else one poll task per handle is
\* created.  The finished tasks' locals are gone.
GatherSubmits ==
    /\ phase = "submit"
    /\ \A u \in Tasks : spc[u] \in {"ok", "failed"}
    /\ tx_hashes' = HandlesUpTo(num)
    /\ IF HandlesUpTo(num) = <<>>
         THEN /\ phase' = "returned"
              /\ ret' = [st |-> "result", included |-> <<>>, failed |-> failed_submissions]
              /\ UNCHANGED qpc
         ELSE /\ phase' = "poll"
              /\ qpc' = [u \in Units |-> IF u <= num /\ spc[u] = "ok" THEN "wait_sem"
                                                                     ELSE "none"]
              /\ UNCHANGED ret
    /\ attempt' = [u \in Units |-> 0]
    /\ timed_out' = [u \in Units |-> FALSE]
    /\ UNCHANGED <<concurrency, num, sem, spc, elapsed, waited, last_exc,
                   submitted_hashes, failed_submissions,
                   pelapsed, pslept, included, included_failures>>
    /\ UNCHANGED <<height, by_block>>
    /\ UNCHANGED <<pvars, xvars>>

\* variant of PollAcquire: poll_one without `async with semaphore`
PollAcquireUnguarded(u) ==
    /\ phase = "poll" /\ qpc[u] = "wait_sem"
    /\ pelapsed' = [pelapsed EXCEPT ![u] = 0]
    /\ IF 0 < IncludeTimeout
         THEN /\ qpc' = [qpc EXCEPT ![u] = "polling"]
              /\ sem' = sem - 1
              /\ UNCHANGED included_failures
         ELSE /\ qpc' = [qpc EXCEPT ![u] = "done"]
              /\ included_failures' = Append(included_failures, <<"tx", u, "timeout">>)
              /\ UNCHANGED sem
    /\ UNCHANGED <<concurrency, num, phase, spc, attempt, elapsed, waited, last_exc,
                   timed_out, submitted_hashes, failed_submissions, tx_hashes,
                   pslept, included, ret>>
    /\ UNCHANGED <<height, by_block>>
    /\ UNCHANGED <<pvars, xvars>>

\* variant of PollAcquire: the deadline was set when the poll tasks were created,
\* so the time another handle spent inside wait_for_inclusion counts against u
PollAcquireClockFromCreation(u) ==
    /\ phase = "poll" /\ qpc[u] = "wait_sem"
    /\ CanAcquire
    /\ pelapsed' = [pelapsed EXCEPT ![u] = 0]
    /\ IF \A v \in Tasks : pelapsed[v] < IncludeTimeout
         THEN /\ qpc' = [qpc EXCEPT ![u] = "polling"]
              /\ sem' = sem - 1
              /\ UNCHANGED included_failures
         ELSE /\ qpc' = [qpc EXCEPT ![u] = "done"]
              /\ included_failures' = Append(included_failures, <<"tx", u, "timeout">>)
              /\ UNCHANGED sem
    /\ UNCHANGED <<concurrency, num, phase, spc, attempt, elapsed, waited, last_exc,
                   timed_out, submitted_hashes, failed_submissions, tx_hashes,
                   pslept, included, ret>>
    /\ UNCHANGED <<height, by_block>>
    /\ UNCHANGED <<pvars, xvars>>

\* lines 215-217, 112-114: poll_one enters `async with semaphore`;
\* wait_for_inclusion sets its deadline and tests it for the first time
PollAcquire(u) ==
    /\ phase = "poll" /\ qpc[u] = "wait_sem"
    /\ CanAcquire
    /\ pelapsed' = [pelapsed EXCEPT ![u] = 0]
    /\ IF 0 < IncludeTimeout
         THEN /\ qpc' = [qpc EXCEPT ![u] = "polling"]
              /\ sem' = sem - 1
              /\ UNCHANGED included_failures
         ELSE /\ qpc' = [qpc EXCEPT ![u] = "done"]
              /\ included_failures' = Append(included_failures, <<"tx", u, "timeout">>)
              /\ UNCHANGED sem
    /\ UNCHANGED <<concurrency, num, phase, spc, attempt, elapsed, waited, last_exc,
                   timed_out, submitted_hashes, failed_submissions, tx_hashes,
                   pslept, included, ret>>
    /\ UNCHANGED <<height, by_block>>
    /\ UNCHANGED <<pvars, xvars>>

\* lines 99-105, 114-117, 218-226: the response of one GET (the height stored
\* with a found handle is followed in ReportSpec).  An exception leaves
\* wait_for_inclusion and poll_one (freeing the permit) and is raised by the
\* gather of line 231, out of submit_many_and_wait.
PollResponse(u, r) ==
    /\ phase = "poll" /\ qpc[u] = "polling"
    /\ CASE r = "found" ->
              /\ included' = Append(included, u)
              /\ qpc' = [qpc EXCEPT ![u] = "done"]
              /\ sem' = sem + 1
              /\ UNCHANGED <<phase, pslept>>
         [] r = "none" ->
              /\ qpc' = [qpc EXCEPT ![u] = "sleeping"]
              /\ pslept' = [pslept EXCEPT ![u] = 0]
              /\ UNCHANGED <<phase, sem, included>>
         [] r = "error" ->
              /\ qpc' = [qpc EXCEPT ![u] = "raised"]
              /\ sem' = sem + 1
              /\ phase' = "aborted"
              /\ UNCHANGED <<included, pslept>>
    /\ UNCHANGED <<concurrency, num, spc, attempt, elapsed, waited, last_exc,
                   timed_out, submitted_hashes, failed_submissions, tx_hashes, pelapsed,
                   included_failures, ret>>
    /\ UNCHANGED <<height, by_block>>
    /\ UNCHANGED <<pvars, xvars>>

\* lines 113, 117-118, 227-228: the sleep is over and the deadline is tested
PollWake(u) ==
    /\ phase = "poll" /\ qpc[u] = "sleeping"
    /\ pslept[u] >= PollEvery
    /\ IF pelapsed[u] < IncludeTimeout
         THEN /\ qpc' = [qpc EXCEPT ![u] = "polling"]
              /\ UNCHANGED <<sem, included_failures>>
         ELSE /\ qpc' = [qpc EXCEPT ![u] = "done"]
              /\ included_failures' = Append(included_failures, <<"tx", u, "timeout">>)
              /\ sem' = sem + 1
    /\ UNCHANGED <<concurrency, num, phase, spc, attempt, elapsed, waited, last_exc,
                   timed_out, submitted_hashes, failed_submissions, tx_hashes,
                   pelapsed, pslept, included, ret>>
    /\ UNCHANGED <<height, by_block>>
    /\ UNCHANGED <<pvars, xvars>>

\* One second passes for every handle inside wait_for_inclusion; a finished
\* sleep wakes before the clock moves on.  Past the deadline the clock of a
\* handle needs no further counting.
PollTick ==
    /\ phase = "poll"
    /\ \E u \in Tasks : qpc[u] \in {"polling", "sleeping"}
    /\ \A u \in Tasks : qpc[u] = "sleeping" => pslept[u] < PollEvery
    /\ \E u \in Tasks : /\ qpc[u] \in {"polling", "sleeping"}
                        /\ (pelapsed[u] < IncludeTimeout \/ qpc[u] = "sleeping")
    /\ pelapsed' = [u \in Units |-> IF qpc[u] \in {"polling", "sleeping"}
                                      THEN Min(pelapsed[u] + 1, IncludeTimeout)
                                      ELSE pelapsed[u]]
    /\ pslept' = [u \in Units |-> IF qpc[u] = "sleeping" THEN pslept[u] + 1 ELSE pslept[u]]
    /\ UNCHANGED <<concurrency, num, sem, phase, spc, attempt, elapsed, waited, last_exc,
                   timed_out, submitted_hashes, failed_submissions, tx_hashes,
                   qpc, included, included_failures, ret>>
    /\ UNCHANGED <<height, by_block>>
    /\ UNCHANGED <<pvars, xvars>>

\* variant of ReturnResult: failed_all without failed_submissions
ReturnResultDropsSubmitFailures ==
    /\ phase = "poll"
    /\ \A u \in Tasks : qpc[u] \in {"none", "done"}
    /\ ret' = [st |-> "result", included |-> included, failed |-> included_failures]
    /\ phase' = "returned"
    /\ UNCHANGED <<concurrency, num, sem, spc, attempt, elapsed, waited, last_exc,
                   timed_out, submitted_hashes, failed_submissions, tx_hashes,
                   qpc, pelapsed, pslept, included, included_failures>>
    /\ UNCHANGED <<height, by_block>>
    /\ UNCHANGED <<pvars, xvars>>

\* lines 231-235: every poll task is done; return included, failed_all
ReturnResult ==
    /\ phase = "poll"
    /\ \A u \in Tasks : qpc[u] \in {"none", "done"}
    /\ ret' = [st |-> "result", included |-> included,
               failed |-> failed_submissions \o included_failures]
    /\ phase' = "returned"
    /\ UNCHANGED <<concurrency, num, sem, spc, attempt, elapsed, waited, last_exc,
                   timed_out, submitted_hashes, failed_submissions, tx_hashes,
                   qpc, pelapsed, pslept, included, included_failures>>
    /\ UNCHANGED <<height, by_block>>
    /\ UNCHANGED <<pvars, xvars>>

Next ==
    \/ \E u \in Tasks : SubmitAcquire(u)
    \/ \E u \in Tasks : SubmitLoop(u)
    \/ \E u \in Tasks : \E r \in Responses : SubmitResponse(u, r)
    \/ \E u \in Tasks : SubmitWake(u)
    \/ \E u \in Tasks : SubmitTimesOut(u)
    \/ SubmitTick
    \/ GatherSubmits
    \/ \E u \in Tasks : PollAcquire(u)
    \/ \E u \in Tasks : \E r \in PollResponses : PollResponse(u, r)
    \/ \E u \in Tasks : PollWake(u)
    \/ PollTick
    \/ ReturnResult

Spec == Init /\ [][Next]_vars

\* asyncio's event loop runs every ready task, and every request and every
\* timer ends: no step that can be taken is put off forever
FairSpec == Init /\ [][Next]_vars /\ WF_vars(Next)

\* ------------------------------------------------------- inclusion report
\* poll_one's bookkeeping and main_async's per-block table, with each
\* wait_for_inclusion call reduced to its result and the semaphore left out:
\* the poll tasks finish in any order.

\* str(k).encode("ascii") for k >= 0
RECURSIVE Digits(_)
Digits(k) ==
    IF k < 10 THEN <<48 + k>> ELSE Append(Digits(k \div 10), 48 + (k % 10))

\* int(s) for a string of decimal digits
RECURSIVE ParseInt(_)
ParseInt(s) ==
    IF Len(s) = 1 THEN s[1] - 48
    ELSE 10 * ParseInt(SubSeq(s, 1, Len(s) - 1)) + (s[Len(s)] - 48)

\* The metadata of a found transaction: its block number under one of three
\* keys or under none, as a JSON number or as a string of digits.
Metas ==
    [key : {"block_height", "blockHeight", "height", "none"},
     val : 0..MaxHeight, str : BOOLEAN]

\* lines 219-225: meta.get(..) or meta.get(..) or meta.get(..), then int() when
\* the result is not None.  A number 0 is falsy and ends as None; the string
\* "0" is not.
HeightOf(meta) ==
    IF meta.key = "none" THEN -1
    ELSE IF meta.str THEN ParseInt(Digits(meta.val))
    ELSE IF meta.val = 0 THEN -1
    ELSE meta.val

ReportInit ==
    /\ ProbeIdle /\ WfiIdle /\ GenIdle /\ StatsIdle
    /\ concurrency = 0 /\ sem = 0
    /\ num \in 1..NumUnits
    /\ phase = "poll"
    /\ spc = [u \in Units |-> IF u <= num THEN "ok" ELSE "idle"]
    /\ attempt = [u \in Units |-> 0]
    /\ elapsed = [u \in Units |-> 0]
    /\ waited = [u \in Units |-> 0]
    /\ last_exc = [u \in Units |-> "none"]
    /\ timed_out = [u \in Units |-> FALSE]
    /\ submitted_hashes = [i \in 1..num |-> i]
    /\ failed_submissions = <<>>
    /\ tx_hashes = [i \in 1..num |-> i]
    /\ qpc = [u \in Units |-> IF u <= num THEN "polling" ELSE "none"]
    /\ pelapsed = [u \in Units |-> 0]
    /\ pslept = [u \in Units |-> 0]
    /\ included = <<>>
    /\ included_failures = <<>>
    /\ ret = [st |-> "none"]
    /\ height = [u \in Units |-> -1]
    /\ by_block = <<>>

\* lines 217-226: found, the height is read from the metadata and stored
R_Found(u, meta) ==
    /\ phase = "poll" /\ qpc[u] = "polling"
    /\ height' = [height EXCEPT ![u] = HeightOf(meta)]
    /\ included' = Append(included, u)
    /\ qpc' = [qpc EXCEPT ![u] = "done"]
    /\ UNCHANGED <<concurrency, num, sem, phase, spc, attempt, elapsed, waited, last_exc,
                   timed_out, submitted_hashes, failed_submissions, tx_hashes,
                   pelapsed, pslept, included_failures, ret, by_block>>
    /\ UNCHANGED <<pvars, xvars>>

\* lines 227-228: not found before the deadline
R_NotFound(u) ==
    /\ phase = "poll" /\ qpc[u] = "polling"
    /\ included_failures' = Append(included_failures, <<"tx", u, "timeout">>)
    /\ qpc' = [qpc EXCEPT ![u] = "done"]
    /\ UNCHANGED <<concurrency, num, sem, phase, spc, attempt, elapsed, waited, last_exc,
                   timed_out, submitted_hashes, failed_submissions, tx_hashes,
                   pelapsed, pslept, included, ret, height, by_block>>
    /\ UNCHANGED <<pvars, xvars>>

\* variant of SetDefault: by_block[h] = [txh]
SetDefaultOverwrites(tbl, h, txh) ==
    [k \in DOMAIN tbl \cup {h} |-> IF k = h THEN <<txh>> ELSE tbl[k]]

\* by_block.setdefault(h, []).append(txh)
SetDefault(tbl, h, txh) ==
    [k \in DOMAIN tbl \cup {h} |->
        IF k = h THEN (IF h \in DOMAIN tbl THEN Append(tbl[h], txh) ELSE <<txh>>)
        ELSE tbl[k]]

\* for txh, h in included: by_block.setdefault(h, []).append(txh)
RECURSIVE GroupUpTo(_, _)
GroupUpTo(seq, k) ==
    IF k = 0 THEN <<>>
    ELSE SetDefault(GroupUpTo(seq, k - 1), height[seq[k]], seq[k])

\* main_async, lines 260-263: the per-block table of the returned outcomes
GroupByBlock ==
    /\ phase = "returned"
    /\ by_block' = GroupUpTo(ret.included, Len(ret.included))
    /\ phase' = "reported"
    /\ UNCHANGED <<concurrency, num, sem, spc, attempt, elapsed, waited, last_exc,
                   timed_out, submitted_hashes, failed_submissions, tx_hashes,
                   qpc, pelapsed, pslept, included, included_failures, ret, height>>
    /\ UNCHANGED <<pvars, xvars>>

ReportNext ==
    \/ \E u \in Tasks : \E meta \in Metas : R_Found(u, meta)
    \/ \E u \in Tasks : R_NotFound(u)
    \/ ReturnResult
    \/ GroupByBlock

ReportSpec == ReportInit /\ [][ReportNext]_vars

\* ---------------------------------------------------------- wait_for_inclusion
\* One call of wait_for_inclusion(tx_hash, timeout_sec, poll_every), the async
\* method of espresso_max_tps.py and the synchronous one of espresso-da.py: the
\* same loop.  Time is counted in seconds since the deadline was set.

\* What get_tx_by_hash sees: a 200 with metadata, a 404, any other status, or
\* an exception of the HTTP call.
GetResponses == {"found", "not_found", "rejected", "error"}

WfiArgs == [timeout_sec : 0..MaxTimeoutSec, poll_every : 1..MaxPollEvery]

\* deadline = time.time() + timeout_sec; attempts = 0
WaitInit ==
    /\ ProbeIdle /\ SubmitterIdle /\ GenIdle /\ StatsIdle
    /\ \E a \in WfiArgs :
          wfi = [pc |-> "loop", timeout_sec |-> a.timeout_sec,
                 poll_every |-> a.poll_every,
                 now |-> 0,         \* time.time() - (deadline - timeout_sec)
                 slept |-> 0,       \* seconds slept in the current sleep
                 since |-> 0,       \* seconds since the last GET was issued
                 gap |-> 0,         \* `since` when the last GET was issued
                 attempts |-> 0,    \* GETs issued
                 extra |-> 0,       \* seconds spent in GETs and in oversleeping
                 info |-> "none"]   \* what the last GET came back with

\* while time.time() < deadline: attempts += 1; get_tx_by_hash(tx_hash)
\* and, when the test fails, return False, None
W_Loop ==
    /\ wfi.pc = "loop"
    /\ IF wfi.now < wfi.timeout_sec
         THEN wfi' = [wfi EXCEPT !.pc = "polling", !.attempts = @ + 1,
                                 !.gap = wfi.since, !.since = 0]
         ELSE wfi' = [wfi EXCEPT !.pc = "timed_out"]
    /\ UNCHANGED <<pvars, svars, gen, stats>>

\* the GET takes time
W_GetTick ==
    /\ wfi.pc = "polling"
    /\ wfi.extra < MaxExtra
    /\ wfi' = [wfi EXCEPT !.now = @ + 1, !.since = @ + 1, !.extra = @ + 1]
    /\ UNCHANGED <<pvars, svars, gen, stats>>

\* variant of W_Response: a status other than 200 and 404 ends the wait
W_ResponseRejectedEnds(r) ==
    /\ wfi.pc = "polling"
    /\ wfi' = [wfi EXCEPT !.info = r,
                          !.slept = 0,
                          !.pc = CASE r = "found" -> "found"
                                   [] r = "error" -> "raised"
                                   [] r = "rejected" -> "timed_out"
                                   [] OTHER -> "sleeping"]
    /\ UNCHANGED <<pvars, svars, gen, stats>>

\* get_tx_by_hash returns the metadata for a 200, None for a 404 and None for
\* every other status; `if info: return True, info`, else the loop sleeps.  An
\* exception of the GET leaves wait_for_inclusion.
W_Response(r) ==
    /\ wfi.pc = "polling"
    /\ wfi' = [wfi EXCEPT !.info = r,
                          !.slept = 0,
                          !.pc = CASE r = "found" -> "found"
                                   [] r = "error" -> "raised"
                                   [] OTHER -> "sleeping"]
    /\ UNCHANGED <<pvars, svars, gen, stats>>

\* sleep(poll_every): a second passes; the sleep may overrun
W_SleepTick ==
    /\ wfi.pc = "sleeping"
    /\ \/ wfi.slept < wfi.poll_every
       \/ wfi.extra < MaxExtra
    /\ wfi' = [wfi EXCEPT !.now = @ + 1, !.since = @ + 1, !.slept = @ + 1,
                          !.extra = IF wfi.slept < wfi.poll_every THEN @ ELSE @ + 1]
    /\ UNCHANGED <<pvars, svars, gen, stats>>

\* variant of W_Wake: the sleep between two polls is skipped
W_WakeAtOnce ==
    /\ wfi.pc = "sleeping"
    /\ wfi' = [wfi EXCEPT !.pc = "loop"]
    /\ UNCHANGED <<pvars, svars, gen, stats>>

\* sleep(poll_every) returns once poll_every seconds have passed
W_Wake ==
    /\ wfi.pc = "sleeping"
    /\ wfi.slept >= wfi.poll_every
    /\ wfi' = [wfi EXCEPT !.pc = "loop"]
    /\ UNCHANGED <<pvars, svars, gen, stats>>

WaitNext ==
    \/ W_Loop
    \/ W_GetTick
    \/ \E r \in GetResponses : W_Response(r)
    \/ W_SleepTick
    \/ W_Wake

WaitSpec == WaitInit /\ [][WaitNext]_vars

\* ----------------------------------------------------------- payload generators
\* deterministic_payload (block_bloat_test_autoshrink.py) and mk_payload
\* (espresso_max_tps.py), each called twice with the same arguments while the
\* wall clock moves on.  Bytes are their integer values.

\* x = (x * 1664525 + 1013904223) & 0xFFFFFFFF on a register kept as two
\* 16-bit halves: 1664525 = 25 * 2^16 + 26125, 1013904223 = 15470 * 2^16 + 62303
LcgNext(x) ==
    LET lo == x.lo * 26125 + 62303
    IN  [lo |-> lo % 65536,
         hi |-> (x.hi * 26125 + x.lo * 25 + 15470 + lo \div 65536) % 65536]

\* the loop of lines 63-65: data[i] = (x >> 24) & 0xFF
RECURSIVE LcgBytes(_, _)
LcgBytes(x, k) ==
    IF k = 0 THEN <<>>
    ELSE <<LcgNext(x).hi \div 256>> \o LcgBytes(LcgNext(x), k - 1)

\* x = 0x42 on every call
DeterministicPayload(n_bytes) == LcgBytes([hi |-> 0, lo |-> 66], n_bytes)

\* pieces.append(s) k times, joined
RECURSIVE Repeat(_, _)
Repeat(s, k) == IF k = 0 THEN <<>> ELSE s \o Repeat(s, k - 1)

\* base + f"#{idx}" + b"-" : the part of s in front of the time stamp
Prefix(base, idx) == base \o <<35>> \o Digits(idx) \o <<45>>

\* variant of MkPayload: the repeated pieces are not cut to size
MkPayloadUncut(base, idx, sz, ms) ==
    LET s == Prefix(base, idx) \o Digits(ms)
    IN  IF Len(s) >= sz THEN SubSeq(s, 1, sz)
        ELSE Repeat(s, CeilDiv(sz, Len(s)))

\* mk_payload at the moment time.time() * 1000 truncates to ms
MkPayload(base, idx, sz, ms) ==
    LET s == Prefix(base, idx) \o Digits(ms)
    IN  IF Len(s) >= sz THEN SubSeq(s, 1, sz)
        ELSE SubSeq(Repeat(s, CeilDiv(sz, Len(s))), 1, sz)

Bases == {b \in UNION {[1..l -> {97, 98}] : l \in 0..MaxBase} : TRUE}

\* the generator under test applied to the arguments at clock value ms
Make(g, ms) ==
    IF g.fn = "deterministic_payload" THEN DeterministicPayload(g.size)
    ELSE MkPayload(g.base, g.idx, g.size, ms)

PayloadInit ==
    /\ ProbeIdle /\ SubmitterIdle /\ WfiIdle /\ StatsIdle
    /\ \E f \in {"deterministic_payload", "mk_payload"}, sz \in 0..MaxPayload,
          b \in Bases, i \in 0..MaxIdx, ms \in 0..MaxClock :
          /\ f = "deterministic_payload" => (b = <<>> /\ i = 0 /\ ms = 0)
          /\ gen = [pc |-> "start", fn |-> f, size |-> sz, base |-> b, idx |-> i,
                    clock |-> ms, t1 |-> 0, t2 |-> 0,
                    first |-> <<>>, second |-> <<>>]

\* the first call
G_FirstCall ==
    /\ gen.pc = "start"
    /\ gen' = [gen EXCEPT !.pc = "between", !.t1 = gen.clock,
                          !.first = Make(gen, gen.clock)]
    /\ UNCHANGED <<pvars, svars, wfi, stats>>

\* a millisecond passes between the two calls
G_Tick ==
    /\ gen.pc = "between"
    /\ gen.clock < MaxClock
    /\ gen' = [gen EXCEPT !.clock = @ + 1]
    /\ UNCHANGED <<pvars, svars, wfi, stats>>

\* the second call, with the same arguments
G_SecondCall ==
    /\ gen.pc = "between"
    /\ gen' = [gen EXCEPT !.pc = "done", !.t2 = gen.clock,
                          !.second = Make(gen, gen.clock)]
    /\ UNCHANGED <<pvars, svars, wfi, stats>>

PayloadNext ==
    \/ G_FirstCall
    \/ G_Tick
    \/ G_SecondCall

PayloadSpec == PayloadInit /\ [][PayloadNext]_vars

\* ------------------------------------------------------------ rate computations
\* calculate_tps of avail_tps.py and celestia_tps.py and calculate_statistics of
\* espresso_analyzer.py on one list of blocks.  A block is its height, its time
\* stamp in seconds and its number of transactions; a rate is either the number
\* 0 or the quotient of a division that was carried out.

Blocks == [height : 1..MaxBlockHeight, time : 0..MaxTime, count : 0..MaxTxs]

BlockLists == UNION {[1..l -> Blocks] : l \in 0..MaxBlocks}

Zero == [kind |-> "zero"]
Quotient(a, b) == [kind |-> "quotient", num |-> a, den |-> b]

\* sum(block count for block in blocks)
RECURSIVE SumCounts(_)
SumCounts(blocks) ==
    IF blocks = <<>> THEN 0
    ELSE blocks[1].count + SumCounts(Tail(blocks))

\* sorted(blocks, key=lambda x: x['height']): a stable sort, here by insertion
RECURSIVE InsertByHeight(_, _)
InsertByHeight(sorted, b) ==
    IF sorted = <<>> THEN <<b>>
    ELSE IF sorted[Len(sorted)].height <= b.height THEN Append(sorted, b)
    ELSE Append(InsertByHeight(SubSeq(sorted, 1, Len(sorted) - 1), b),
                sorted[Len(sorted)])

RECURSIVE SortByHeight(_)
SortByHeight(blocks) ==
    IF blocks = <<>> THEN <<>>
    ELSE InsertByHeight(SortByHeight(SubSeq(blocks, 1, Len(blocks) - 1)),
                        blocks[Len(blocks)])

\* variant of AvailTps: only a negative time difference is turned away
AvailTpsDividesByZero(blocks) ==
    IF blocks = <<>> THEN Zero
    ELSE LET time_diff == blocks[1].time - blocks[Len(blocks)].time
         IN  IF time_diff < 0 THEN Zero
             ELSE Quotient(SumCounts(blocks), time_diff)

\* avail_tps.calculate_tps: the list is taken as newest first
AvailTps(blocks) ==
    IF blocks = <<>> THEN Zero
    ELSE LET time_diff == blocks[1].time - blocks[Len(blocks)].time
         IN  IF time_diff <= 0 THEN Zero
             ELSE Quotient(SumCounts(blocks), time_diff)

\* celestia_tps.calculate_tps
CelestiaTps(blocks) ==
    IF blocks = <<>> THEN Zero
    ELSE LET sorted_blocks == SortByHeight(blocks)
             time_diff == sorted_blocks[Len(blocks)].time - sorted_blocks[1].time
         IN  IF time_diff <= 0 THEN Zero
             ELSE Quotient(SumCounts(sorted_blocks), time_diff)

\* espresso_analyzer.calculate_statistics: the 'average_tps' of its result
\* (None for an empty list)
EspressoTps(blocks) ==
    IF blocks = <<>> THEN [kind |-> "none"]
    ELSE LET sorted_blocks == SortByHeight(blocks)
             total_time_diff ==
                 IF Len(sorted_blocks) > 1
                   THEN sorted_blocks[Len(blocks)].time - sorted_blocks[1].time
                   ELSE 0
         IN  IF total_time_diff > 0
               THEN Quotient(SumCounts(sorted_blocks), total_time_diff)
               ELSE Zero

RateOf(fn, blocks) ==
    CASE fn = "avail" -> AvailTps(blocks)
      [] fn = "celestia" -> CelestiaTps(blocks)
      [] OTHER -> EspressoTps(blocks)

StatsInit ==
    /\ ProbeIdle /\ SubmitterIdle /\ WfiIdle /\ GenIdle
    /\ \E f \in {"avail", "celestia", "espresso"}, bl \in BlockLists :
          stats = [pc |-> "called", fn |-> f, blocks |-> bl, result |-> Zero]

\* the call runs to its return
ST_Calculate ==
    /\ stats.pc = "called"
    /\ stats' = [stats EXCEPT !.pc = "done", !.result = RateOf(stats.fn, stats.blocks)]
    /\ UNCHANGED <<pvars, svars, wfi, gen>>

StatsNext == ST_Calculate

StatsSpec == StatsInit /\ [][StatsNext]_vars

\* ------------------------------------------------------------ probe claims

\* C1: against every fixed deterministic oracle bloat_autoshrink makes a bounded
\* number of Submit attempts and then ends; it never keeps resubmitting the same
\* (size, count) forever.  (How it ends is C16's matter: every way of leaving
\* the function counts as an end here.)
C1_AutoshrinkTerminates == <>(prog = "block" \/ pc \in PTerminal)

\* C2: whenever a probe returns (size, count), an earlier Submit of this run at
\* exactly (size, count) was accepted, and size >= minSize, count >= minCount.
C2_ReturnedPairWasAccepted ==
    pc = "returned" =>
        /\ <<size, best_n>> \in accepted
        /\ size >= cfg.min_bytes
        /\ best_n >= cfg.min_calls

\* C2 witness: bloat_autoshrink returns after shrinking the size, halving the
\* count and growing it again past a rejected growth attempt.
C2_Witness ==
    /\ prog = "autoshrink" /\ pc = "returned"
    /\ size < cfg.start_bytes
    /\ best_n > nn
    /\ ~sub_ok

\* -------------------------------------------------------- submitter claims

\* how often handle u stands in a list of handles
InHandles(seq, u) == Cardinality({i \in 1..Len(seq) : seq[i] = u})

\* how often unit u stands in a list of failures
InFailures(seq, u) == Cardinality({i \in 1..Len(seq) : seq[i][2] = u})

\* C3: in every reachable state, under every interleaving, at most `concurrency`
\* tasks are inside client.submit (posting, retrying or sleeping in backoff).
C3_SubmitConcurrencyBound ==
    Cardinality({u \in Tasks : InSubmit(u)}) <= concurrency

\* C3 witness: the cap is reached by a task sleeping in backoff before a retry
\* while another task waits for the permit.
C3_Witness ==
    /\ concurrency >= 1
    /\ Cardinality({u \in Tasks : InSubmit(u)}) = concurrency
    /\ \E u \in Tasks : spc[u] = "backoff" /\ waited[u] >= 1
    /\ \E u \in Tasks : spc[u] = "wait_sem"

\* C4: after the submit phase every unit has produced exactly one of a handle or
\* a submit failure, so len(handles) + len(failures) == num.
C4_SubmitCompleteness ==
    phase # "submit" =>
        /\ Len(tx_hashes) + Len(failed_submissions) = num
        /\ \A u \in Tasks : InHandles(tx_hashes, u) + InFailures(failed_submissions, u) = 1

\* C4 witness: the submit phase ended with a handle and a timed-out submit.
C4_Witness ==
    /\ phase = "poll"
    /\ Len(tx_hashes) >= 1
    /\ \E i \in 1..Len(failed_submissions) : failed_submissions[i][3] = ""

\* C5: every handle passed to polling yields exactly one outcome in the returned
\* result, also when a Poll of some handle fails with an error.
C5_TrackerTotality ==
    phase \in {"returned", "aborted"} =>
        /\ ret.st = "result"
        /\ \A i \in 1..Len(tx_hashes) :
              InHandles(ret.included, tx_hashes[i]) + InFailures(ret.failed, tx_hashes[i]) = 1

\* C6: in the result that is returned every requested unit is counted exactly
\* once, as included or as failed: len(included) + len(failed) == num.
C6_Accounting ==
    phase = "returned" =>
        /\ ret.st = "result"
        /\ Len(ret.included) + Len(ret.failed) = num
        /\ \A u \in Tasks : InHandles(ret.included, u) + InFailures(ret.failed, u) = 1

\* C6 witness: a result holding an included unit and a unit that failed at submit.
C6_Witness ==
    /\ phase = "returned"
    /\ Len(ret.included) >= 1
    /\ \E i \in 1..Len(ret.failed) : ret.failed[i][1] = "submit#"

\* C7: a unit whose Submit got a non-retryable status is failed immediately: no
\* further POST is made for it.
C7_NoRetryAfterFatal ==
    \A u \in Tasks : last_exc[u] = "fatal" => spc[u] # "inflight"

\* C8: attempt k+1 of a unit does not start before a backoff of
\* backoff_base * 2^(k-1) has elapsed after its failed attempt k.
C8_BackoffBeforeRetry ==
    \A u \in Tasks :
        spc[u] = "inflight" /\ attempt[u] >= 2 => waited[u] >= Backoff(attempt[u] - 1)

\* C9: the whole submit of a unit is bounded by submit_timeout; a unit that
\* exceeds it makes no further attempt, yields no handle and is recorded as
\* exactly one failure whose reason is "timeout".
C9_SubmitTimeoutRecorded ==
    \A u \in Tasks :
        /\ elapsed[u] <= SubmitTimeout
        /\ timed_out[u] =>
              /\ spc[u] = "failed"
              /\ InHandles(submitted_hashes, u) = 0
              /\ InFailures(failed_submissions, u) = 1
              /\ \A i \in 1..Len(failed_submissions) :
                    failed_submissions[i][2] = u => failed_submissions[i][3] = "timeout"

\* C10: every unit gets its Submit attempted whatever happens to the others, and
\* the handles of the successful units are carried on to polling.
C10_SubmitFailureIsolation ==
    /\ \A u \in Tasks : phase = "submit" /\ spc[u] \in {"ok", "failed"} => attempt[u] >= 1
    /\ phase # "submit" =>
          \A u \in Tasks :
              /\ spc[u] \in {"ok", "failed"}
              /\ spc[u] = "ok" => InHandles(tx_hashes, u) = 1
    /\ phase = "poll" => \A u \in Tasks : spc[u] = "ok" => qpc[u] # "none"

\* C10 witness: one unit exhausted its retries, the other was accepted
\* afterwards and is being polled.
C10_Witness ==
    /\ phase = "poll"
    /\ \E i \in 1..Len(failed_submissions) : failed_submissions[i][3] = "error"
    /\ \E u \in Tasks : spc[u] = "ok" /\ qpc[u] = "polling"
    /\ spc[1] = "failed"

\* ---------------------------------------------------------- tracking claims

\* C11: wait_for_inclusion reports not-found only when timeout_sec seconds have
\* passed since it set its deadline, never earlier; two consecutive polls are at
\* least poll_every seconds apart; with timeout 5 s, interval 1 s and polls and
\* sleeps that take no extra time the not-found result comes after exactly 5
\* polls, at second 5.
C11_TimedOutOnlyAtDeadline ==
    /\ wfi.pc = "timed_out" => wfi.now >= wfi.timeout_sec
    /\ (wfi.pc = "polling" /\ wfi.attempts >= 2) => wfi.gap >= wfi.poll_every
    /\ (wfi.pc = "timed_out" /\ wfi.timeout_sec = 5 /\ wfi.poll_every = 1
          /\ wfi.extra = 0)
         => (wfi.attempts = 5 /\ wfi.now = 5)

C11_Witness ==
    /\ wfi.pc = "timed_out" /\ wfi.timeout_sec = 5 /\ wfi.poll_every = 1
    /\ wfi.extra = 0 /\ wfi.attempts = 5 /\ wfi.info = "not_found"

\* C12 (as claimed): once a GET of the handle comes back with a status other
\* than 200 and 404, wait_for_inclusion ends at once with the failed result and
\* the handle is not polled again.
C12_RejectedPollIsTerminal ==
    wfi.info = "rejected" => wfi.pc = "timed_out"

\* C12 (amended): a status other than 200 and 404 is handled like a 404: the
\* wait goes on, the handle is polled again poll_every seconds later, and the
\* failed result comes only when the deadline has passed.
C12_RejectedPollKeepsPolling ==
    wfi.info = "rejected" =>
        /\ wfi.pc \in {"sleeping", "loop", "polling", "timed_out"}
        /\ wfi.pc = "timed_out" => wfi.now >= wfi.timeout_sec
        /\ wfi.pc = "polling" => (wfi.attempts >= 2 /\ wfi.gap >= wfi.poll_every)

C12_Witness ==
    wfi.info = "rejected" /\ wfi.pc = "polling" /\ wfi.attempts >= 2

\* Handles inside wait_for_inclusion: being polled or sleeping between polls.
InTracking(u) == qpc[u] \in {"polling", "sleeping"}

\* C13: in every state of the polling phase, whatever the interleaving of the
\* poll tasks and however many handles there are, at most `concurrency` handles
\* are inside wait_for_inclusion.
C13_TrackerConcurrencyBound ==
    Cardinality({u \in Tasks : InTracking(u)}) <= concurrency

C13_Witness ==
    /\ phase = "poll"
    /\ \E u, v \in Tasks : InTracking(u) /\ qpc[v] = "wait_sem"

\* --------------------------------------------------------- semaphore claims

\* submit_many_and_wait called with up to one more permit than Spec draws, so
\* that two tasks can hold a permit at the same time.
WideInit ==
    /\ ProbeIdle /\ WfiIdle /\ GenIdle /\ StatsIdle
    /\ SM_Enter(0..(MaxConcurrency + 1))

WideSpec == WideInit /\ [][Next]_vars

\* Tasks inside `async with semaphore`.
HoldsPermit(u) == InSubmit(u) \/ InTracking(u)

\* C14: in every reachable state the free permits plus the tasks holding a
\* permit equal `concurrency`, and when submit_many_and_wait has ended (by
\* return or by an exception) all `concurrency` permits are free.
C14_SemaphoreSymmetry ==
    /\ sem + Cardinality({u \in Tasks : HoldsPermit(u)}) = concurrency
    /\ phase \in {"returned", "aborted"} => sem = concurrency

\* ------------------------------------------------------ probe claims, part 2

\* C15: against a service that at size s accepts exactly the counts up to L, a
\* probe that returns (s, c) has c <= L and either c is the count cap or the
\* next growth step floor(1.1 * c) + 1 is above L; with L = 37 at 4096 bytes,
\* start count 100, minimum count 1 and a cap of at least 100 the probe returns
\* size 4096 and a count between 34 and 37.
C15_GrowthOvershootBound ==
    pc = "returned" =>
        LET L == oracle.capBytes \div size IN
        /\ best_n <= L
        /\ best_n = cfg.max_calls \/ (best_n * 11) \div 10 + 1 > L
        /\ (/\ cfg.start_bytes = ChunkBytes /\ oracle.capBytes \div ChunkBytes = 37
            /\ cfg.start_calls = StartCalls /\ cfg.min_calls = 1
            /\ cfg.max_calls >= StartCalls)
              => (size = ChunkBytes /\ best_n \in 34..37)

C15_Witness ==
    /\ pc = "returned" /\ size = ChunkBytes /\ oracle.capBytes \div ChunkBytes = 37
    /\ cfg.start_calls = StartCalls /\ cfg.min_calls = 1 /\ best_n = 35
    /\ <<ChunkBytes, 39>> \in tried

\* C16: for any start_bytes >= min_bytes a run of bloat_autoshrink in which no
\* Submit is accepted ends by raising the RuntimeError; it never ends by
\* leaving the size loop without a result.
C16_NoFeasibleUnitRaises ==
    (/\ prog = "autoshrink" /\ cfg.start_bytes >= cfg.min_bytes
     /\ accepted = {} /\ pc \in PTerminal)
        => pc = "raised"

\* ---------------------------------------------------- submitter claims, part 2

\* C17: submit_many_and_wait called with concurrency <= 0 ends with an error the
\* caller sees, without any Submit call; it never sits with every submit task
\* waiting on the semaphore and nothing left that can run.
C17_InvalidConcurrencyIsFatal ==
    concurrency <= 0 =>
        /\ \A u \in Tasks : attempt[u] = 0 /\ ~InSubmit(u)
        /\ phase = "aborted" \/ ENABLED Next

\* ------------------------------------------------------ probe claims, part 3

\* C18 (as claimed): bloat_autoshrink called with min_bytes > start_bytes makes
\* no Submit attempt: it ends with a configuration error first.
C18_InvalidFloorIsFatal ==
    (prog = "autoshrink" /\ cfg.min_bytes > cfg.start_bytes) => tried = {}

\* C18 (amended): bloat_autoshrink called with min_bytes > start_bytes raises
\* no configuration error: it raises the size to min_bytes and runs its search
\* there, so every Submit attempt of the run is made at exactly min_bytes and
\* a returned size is min_bytes.
C18_FloorReplacesStartSize ==
    (prog = "autoshrink" /\ cfg.min_bytes > cfg.start_bytes) =>
        /\ size = cfg.min_bytes
        /\ \A t \in tried : t[1] = cfg.min_bytes
        /\ pc # "fell_off"

C18_Witness ==
    /\ prog = "autoshrink" /\ cfg.min_bytes > cfg.start_bytes
    /\ pc = "returned" /\ size = cfg.min_bytes /\ tried # {}

\* ------------------------------------------------------------ payload claims

Occurrences(seq, u) == Cardinality({i \in 1..Len(seq) : seq[i] = u})

RECURSIVE GroupTotal(_)
GroupTotal(keys) ==
    IF keys = {} THEN 0
    ELSE LET h == CHOOSE k \in keys : TRUE
         IN  Len(by_block[h]) + GroupTotal(keys \ {h})

\* C20: the per-block table puts every included transaction in exactly one
\* group, the group of its block height or the one no-block group when the
\* height is missing, and the group sizes add up to the number of included
\* transactions, whatever the order in which the outcomes arrived.
C20_GroupingPartition ==
    phase = "reported" =>
        /\ \A i \in 1..Len(ret.included) :
              LET u == ret.included[i] IN
              /\ height[u] \in DOMAIN by_block
              /\ Occurrences(by_block[height[u]], u) = 1
              /\ \A h \in DOMAIN by_block \ {height[u]} :
                    Occurrences(by_block[h], u) = 0
        /\ \A h \in DOMAIN by_block : Len(by_block[h]) >= 1
        /\ GroupTotal(DOMAIN by_block) = Len(ret.included)

C20_Witness ==
    /\ phase = "reported"
    /\ \E h \in DOMAIN by_block : by_block[h] = <<2, 1>>

\* --------------------------------------------------------------- rate claims

\* The first and the last sample of a block list as each computation takes
\* them: avail_tps reads the list newest first; the other two order it by
\* height, equal heights staying in list order.
FirstSample(fn, blocks) ==
    IF fn = "avail" THEN blocks[Len(blocks)]
    ELSE blocks[CHOOSE i \in 1..Len(blocks) :
                  \A j \in 1..Len(blocks) :
                     \/ blocks[i].height < blocks[j].height
                     \/ (blocks[i].height = blocks[j].height /\ i <= j)]

LastSample(fn, blocks) ==
    IF fn = "avail" THEN blocks[1]
    ELSE blocks[CHOOSE i \in 1..Len(blocks) :
                  \A j \in 1..Len(blocks) :
                     \/ blocks[i].height > blocks[j].height
                     \/ (blocks[i].height = blocks[j].height /\ i >= j)]

\* C21: each rate computation returns 0 whenever the time from its first to its
\* last sample is <= 0 (a single block, equal time stamps, a reversed list) and
\* never divides by a zero or negative elapsed time.
C21_RateGuard ==
    (stats.pc = "done" /\ stats.blocks # <<>>) =>
        LET time_span == LastSample(stats.fn, stats.blocks).time
                         - FirstSample(stats.fn, stats.blocks).time
        IN  /\ time_span <= 0 => stats.result = Zero
            /\ stats.result.kind = "quotient" =>
                  (stats.result.den = time_span /\ time_span > 0)
            /\ stats.result.kind \in {"zero", "quotient"}

C21_Witness ==
    /\ stats.pc = "done" /\ Len(stats.blocks) = 2
    /\ stats.blocks[1].time = stats.blocks[2].time
    /\ SumCounts(stats.blocks) > 0
    /\ stats.result = Zero

\* ------------------------------------------------------ probe claims, part 4

\* The inner search of the current size has not submitted anything yet.
AtFirstCount ==
    /\ prog = "autoshrink" /\ pc = "count_loop"
    /\ \A t \in tried : t[1] # size

\* C22 (as claimed): at every size bloat_autoshrink tries, the first one and
\* every one reached by shrinking, the first count submitted is
\* min(start_calls, max_calls).
C22_InnerSearchStartsAtStartCount ==
    AtFirstCount => nn = Min(cfg.start_calls, cfg.max_calls)

\* C22 (amended): the first count submitted at the first size is
\* max(min_calls, start_calls) clamped to the count cap; at a size reached by
\* shrinking it is max(min_calls, start_calls // ceil(start_bytes / size))
\* clamped to the cap: the start count shrinks with the size.
C22_InnerSearchStartScalesWithSize ==
    AtFirstCount =>
        nn = Min(cfg.max_calls,
                 IF size = Max(cfg.min_bytes, cfg.start_bytes)
                   THEN Max(cfg.min_calls, cfg.start_calls)
                   ELSE Max(cfg.min_calls,
                            cfg.start_calls \div ((cfg.start_bytes + size - 1) \div size)))

C22_Witness ==
    /\ AtFirstCount /\ size < cfg.start_bytes
    /\ cfg.min_calls <= cfg.start_calls
    /\ nn < Min(cfg.start_calls, cfg.max_calls)

\* The probe is waiting for, or looking at, the result of a growth attempt.
GrowthSubmitted == pc \in {"grow_submitted", "b_grow_tried"}

\* C23 (as claimed): every growth attempt is made at count floor(1.1 * c) + 1
\* of the last accepted count c, and only while that value is <= maxCount.
C23_GrowthStepIsExact ==
    GrowthSubmitted =>
        /\ probe = (best_n * 11) \div 10 + 1
        /\ probe <= cfg.max_calls

\* C23 (amended): after the first acceptance the probe submits only at the same
\* size, each time at min(maxCount, floor(1.1 * c) + 1) of the last accepted
\* count c and only while that is above c; nothing is submitted after the
\* first rejected growth attempt, and the returned count is the last, and
\* largest, accepted one.
C23_GreedyGrowthClamped ==
    LET step == Min(cfg.max_calls, (best_n * 11) \div 10 + 1) IN
    /\ accepted # {} =>
          \/ /\ pc \in {"submitted", "b_tried"} /\ sub_ok
             /\ accepted = {<<size, IF prog = "block" THEN n ELSE nn>>}
          \/ /\ pc \in {"grow_loop", "grow_submitted", "b_grow", "b_grow_tried",
                         "returned"}
             /\ \A a \in accepted :
                   /\ a[1] = size
                   /\ a[2] <= best_n \/ (GrowthSubmitted /\ sub_ok /\ a[2] = probe)
             /\ <<size, best_n>> \in accepted
    /\ GrowthSubmitted =>
          /\ probe = step /\ probe > best_n
          /\ <<size, probe>> \in tried
    /\ pc \in {"grow_loop", "b_grow"} => (sub_ok /\ probe = step)
    /\ pc = "returned" =>
          \/ step <= best_n
          \/ <<size, step>> \in tried \ accepted

C23_Witness ==
    /\ pc = "returned" /\ best_n = 93 /\ cfg.max_calls = StartCalls
    /\ <<size, StartCalls>> \in tried \ accepted

\* C24: bloat_autoshrink halves the payload size only after a Submit at
\* (size, min_calls) was made and rejected at that size, whatever the text of
\* the rejection.
C24_ShrinkOnlyAfterCountFloorFailed ==
    (prog = "autoshrink" /\ pc = "shrink" /\ size > cfg.min_bytes) =>
        <<size, cfg.min_calls>> \in tried \ accepted

\* high = max(1, min(max_calls, start_calls))
High == Max(1, Min(cfg.max_calls, cfg.start_calls))

\* floor(log2(k)) for k >= 1
RECURSIVE Log2Floor(_)
Log2Floor(k) == IF k <= 1 THEN 0 ELSE 1 + Log2Floor(k \div 2)

\* C25: bloat_block's downward search starts at high, halves (floor) after each
\* rejection, never submits a count below 1, makes at most floor(log2(high)) + 1
\* submissions up to the first acceptance, and raises RuntimeError when all of
\* them, the count 1 included, are rejected.
C25_CountOnlyProbeTerminates ==
    prog = "block" =>
        /\ \A t \in tried : t[1] = size /\ t[2] >= 1
        /\ tried # {} => <<size, High>> \in tried
        /\ (accepted = {} \/ pc = "b_tried") =>
              /\ Cardinality(tried) <= Log2Floor(High) + 1
              /\ \A t \in tried : \E k \in 0..Log2Floor(High) : t[2] = High \div Pow2(k)
        /\ pc = "raised" =>
              /\ accepted = {}
              /\ <<size, 1>> \in tried
              /\ Cardinality(tried) = Log2Floor(High) + 1
        /\ (pc \in PTerminal /\ accepted = {}) => pc = "raised"

C25_Witness ==
    /\ prog = "block" /\ pc = "raised" /\ High >= 4
    /\ Cardinality(tried) = 3

\* ---------------------------------------------------- submitter claims, part 3

\* C26: no Poll of any handle is issued until every one of the num submit tasks
\* has finished, with a handle or with a failure; when no submit succeeded the
\* function returns the failures without issuing any Poll.
C26_PhaseOrdering ==
    /\ (\E u \in Units : qpc[u] # "none") =>
          \A u \in Tasks : spc[u] \in {"ok", "failed"}
    /\ (phase = "returned" /\ tx_hashes = <<>>) =>
          /\ \A u \in Units : qpc[u] = "none"
          /\ ret.included = <<>>
          /\ ret.failed = failed_submissions
          /\ \A u \in Tasks : InFailures(ret.failed, u) = 1

C26_Witness ==
    /\ phase = "returned" /\ tx_hashes = <<>> /\ num = 2
    /\ Len(ret.failed) = 2

Ended == phase \in {"returned", "aborted"}

\* unit u's submit task, and its poll task if it has one, ran to its end
TaskComplete(u) == spc[u] \in {"ok", "failed"} /\ qpc[u] \in {"none", "done", "raised"}

\* C28: with concurrency >= 1, under fair scheduling, submit_many_and_wait
\* eventually ends, and every submit task and every poll task eventually
\* acquires a permit and completes.
C28_EveryTaskCompletes ==
    (concurrency >= 1) => <>(Ended /\ \A u \in Tasks : TaskComplete(u))

\* handle u is recorded as "timeout"
RecordedTimeout(u) ==
    \E i \in 1..Len(included_failures) : included_failures[i] = <<"tx", u, "timeout">>

\* C29: a handle's inclusion deadline is set only after its poll task holds a
\* permit: while the task waits for a permit its clock stands at zero, and a
\* handle recorded as "timeout" ran its own clock to include_timeout and slept
\* after at least one poll, however long it waited behind other handles.
C29_ClockStartsAtPermit ==
    \A u \in Tasks :
        /\ qpc[u] = "wait_sem" => (pelapsed[u] = 0 /\ pslept[u] = 0 /\ ~RecordedTimeout(u))
        /\ RecordedTimeout(u) =>
              /\ qpc[u] = "done"
              /\ pelapsed[u] >= IncludeTimeout
              /\ pslept[u] >= PollEvery

C29_Witness ==
    /\ concurrency = 1 /\ num = 2
    /\ \A u \in Tasks : RecordedTimeout(u)

\* C30: every Submit made by bloat_autoshrink has a count in
\* [min_calls, max(min_calls, max_calls)] and a size in
\* [min_bytes, max(min_bytes, start_bytes)], and the sizes it submits at never
\* increase during a run (the size never grows, and no attempt was made at a
\* size below the current one).
C30_ProbeAttemptBounds ==
    /\ [](prog = "autoshrink" =>
            \A t \in tried :
                /\ cfg.min_calls <= t[2] /\ t[2] <= cfg.max_calls
                /\ cfg.min_bytes <= t[1] /\ t[1] <= Max(cfg.min_bytes, cfg.start_bytes)
                /\ t[1] >= size)
    /\ [][prog = "autoshrink" => size' <= size]_vars

C30_Witness ==
    /\ prog = "autoshrink" /\ pc = "returned"
    /\ \E s, t \in tried : s[1] > t[1] /\ t[2] = cfg.max_calls

====
